---- MODULE Spec2Model ----
(***************************************************************************)
(* Posture scoring and feedback engine of src/main.py.                     *)
(*                                                                         *)
(* One request is a pair (metrics, issues).  calculate_overall_score is    *)
(* the Scorer; analyze_posture_endpoint runs the Assessor, calls the       *)
(* Scorer and composes the PostureFeedback response.  The service keeps no *)
(* state between requests, so a behaviour is: a request arrives (Init),    *)
(* then one of the two operations is applied to it.                        *)
(*                                                                         *)
(* Numbers.  Angles are whole degrees.  The two ratio metrics are held in  *)
(* hundredths (the model value 16 is the JSON number 0.16), and so are     *)
(* their thresholds (0.15 is 15); v/100 > t/100 exactly when v > t.        *)
(*                                                                         *)
(* Strings.  An issue string is a sequence of one-character strings, so    *)
(* that lower() and the substring test "x in s" are computed.  A text the  *)
(* handler only joins and rewrites (a phrase, an assessment) is a sequence *)
(* of tokens, where "." and " " are tokens of their own and no other token *)
(* begins or ends with one of them; join, replace("..", ".") and strip()   *)
(* are computed on the tokens.  A text that is only copied (a              *)
(* recommendation, a tip) is a TLA+ string.                                *)
(***************************************************************************)
EXTENDS Integers, Sequences, FiniteSets, TLC

VARIABLES metrics, issues, pc, score, assessment_parts, response

vars == <<metrics, issues, pc, score, assessment_parts, response>>

\* Longest issue list of a request.
MaxIssues == 2

-----------------------------------------------------------------------------
(* Python values *)

\* A value of the metrics dict: a number, JSON null, a JSON string (any
\* non-numeric value: abs() and > raise TypeError on it), or no key at all.
Num(n) == [kind |-> "num", value |-> n]
NoneV == [kind |-> "None", value |-> 0]
StrV == [kind |-> "str", value |-> 0]
AbsentV == [kind |-> "absent", value |-> 0]

\* Optional[int] results, and the exception that escapes a call.
Int_(n) == [kind |-> "int", value |-> n]
TypeError == [kind |-> "TypeError", value |-> 0]
Unset == [kind |-> "unset", value |-> 0]

MetricKeys ==
    {"shoulderAngle", "torsoAngleFromVertical", "spineHorizontalOffsetRatio", "headForwardRatio"}

\* metrics.get(key): None for a missing key, the stored value otherwise.
Get(m, key) == IF m[key].kind = "absent" THEN NoneV ELSE m[key]

\* Variant: a dict whose values are all None counts as empty.
Truthy_values(m) == \E k \in MetricKeys : m[k].kind \notin {"absent", "None"}

\* bool(metrics): a dict is falsy exactly when it has no key.
Truthy(m) == \E k \in MetricKeys : m[k].kind # "absent"

abs(n) == IF n < 0 THEN -n ELSE n

max(a, b) == IF a >= b THEN a ELSE b

min(a, b) == IF a <= b THEN a ELSE b

\* round() of an int is that int; the accumulated score only ever has
\* integer penalties subtracted from 100.
round(n) == n

-----------------------------------------------------------------------------
(* Strings *)

UpperCase == <<"A","B","C","D","E","F","G","H","I","J","K","L","M",
               "N","O","P","Q","R","S","T","U","V","W","X","Y","Z">>

LowerCase == <<"a","b","c","d","e","f","g","h","i","j","k","l","m",
               "n","o","p","q","r","s","t","u","v","w","x","y","z">>

\* str.lower(), character by character.
lower(s) ==
    [i \in 1..Len(s) |->
        IF \E j \in 1..Len(UpperCase) : UpperCase[j] = s[i]
        THEN LowerCase[CHOOSE j \in 1..Len(UpperCase) : UpperCase[j] = s[i]]
        ELSE s[i]]

\* "pat in s": pat occurs in s as a contiguous run.
In(pat, s) ==
    \E i \in 0..(Len(s) - Len(pat)) : SubSeq(s, i + 1, i + Len(pat)) = pat

visibility == <<"v","i","s","i","b","i","l","i","t","y">>

waiting == <<"w","a","i","t","i","n","g">>

unclear == <<"u","n","c","l","e","a","r">>

-----------------------------------------------------------------------------
(* Constants of the program *)

\* Ratios in hundredths.
THRESHOLDS ==
    [shoulder_angle_warning |-> 5,
     shoulder_angle_significant |-> 10,
     head_forward_ratio_warning |-> 10,
     head_forward_ratio_significant |-> 15,
     torso_angle_warning |-> 15,
     torso_angle_significant |-> 20,
     spine_offset_ratio_warning |-> 15,
     spine_offset_ratio_significant |-> 20]

PENALTIES ==
    [significant |-> 22, warning |-> 14, missing_data_low |-> 5, visibility_issue |-> 6]

-----------------------------------------------------------------------------
(* The Scorer: calculate_overall_score *)

\* any("visibility" in i.lower() for i in issues)
AnyVisibility(iss) == \E i \in 1..Len(iss) : In(visibility, lower(iss[i]))

\* not issues or all("visibility" in i.lower() or "waiting" in i.lower() for i in issues)
AllVisibilityOrWaiting(iss) ==
    \/ iss = <<>>
    \/ \A i \in 1..Len(iss) :
           In(visibility, lower(iss[i])) \/ In(waiting, lower(iss[i]))

\* Variant: `or` where the guard has `and`.
InsufficientData_or(m, iss) == ~Truthy(m) \/ AllVisibilityOrWaiting(iss)

\* The guard of the early return None.
InsufficientData(m, iss) == ~Truthy(m) /\ AllVisibilityOrWaiting(iss)

\* The running local `score`, and whether a TypeError has left the function.
Running(n) == [score |-> n, raised |-> FALSE]

Raised(st) == [st EXCEPT !.raised = TRUE]

Deduct(st, penalty) == [st EXCEPT !.score = @ - penalty]

\* Variant: the shoulder angle is compared without abs().
ScoreShoulder_raw(st, m, has_visibility_issue) ==
    LET shoulder_angle == Get(m, "shoulderAngle") IN
    IF st.raised THEN st
    ELSE IF shoulder_angle # NoneV
    THEN IF shoulder_angle.kind # "num" THEN Raised(st)
         ELSE IF shoulder_angle.value > THRESHOLDS.shoulder_angle_significant
         THEN Deduct(st, PENALTIES.significant)
         ELSE IF shoulder_angle.value > THRESHOLDS.shoulder_angle_warning
         THEN Deduct(st, PENALTIES.warning)
         ELSE st
    ELSE IF ~has_visibility_issue THEN Deduct(st, PENALTIES.missing_data_low)
    ELSE st

\* Shoulder Angle block.
ScoreShoulder(st, m, has_visibility_issue) ==
    LET shoulder_angle == Get(m, "shoulderAngle") IN
    IF st.raised THEN st
    ELSE IF shoulder_angle # NoneV
    THEN IF shoulder_angle.kind # "num" THEN Raised(st)
         ELSE LET abs_angle == abs(shoulder_angle.value) IN
              IF abs_angle > THRESHOLDS.shoulder_angle_significant
              THEN Deduct(st, PENALTIES.significant)
              ELSE IF abs_angle > THRESHOLDS.shoulder_angle_warning
              THEN Deduct(st, PENALTIES.warning)
              ELSE st
    ELSE IF ~has_visibility_issue THEN Deduct(st, PENALTIES.missing_data_low)
    ELSE st

\* Torso Angle block.
ScoreTorso(st, m, has_visibility_issue) ==
    LET torso_angle == Get(m, "torsoAngleFromVertical") IN
    IF st.raised THEN st
    ELSE IF torso_angle # NoneV
    THEN IF torso_angle.kind # "num" THEN Raised(st)
         ELSE LET abs_angle == abs(torso_angle.value) IN
              IF abs_angle > THRESHOLDS.torso_angle_significant
              THEN Deduct(st, PENALTIES.significant)
              ELSE IF abs_angle > THRESHOLDS.torso_angle_warning
              THEN Deduct(st, PENALTIES.warning)
              ELSE st
    ELSE IF ~has_visibility_issue THEN Deduct(st, PENALTIES.missing_data_low)
    ELSE st

\* Variant: the spine offset is compared by its absolute value.
ScoreSpine_abs(st, m, has_visibility_issue) ==
    LET spine_offset == Get(m, "spineHorizontalOffsetRatio") IN
    IF st.raised THEN st
    ELSE IF spine_offset # NoneV
    THEN IF spine_offset.kind # "num" THEN Raised(st)
         ELSE IF abs(spine_offset.value) > THRESHOLDS.spine_offset_ratio_significant
         THEN Deduct(st, PENALTIES.significant)
         ELSE IF abs(spine_offset.value) > THRESHOLDS.spine_offset_ratio_warning
         THEN Deduct(st, PENALTIES.warning)
         ELSE st
    ELSE IF ~has_visibility_issue THEN Deduct(st, PENALTIES.missing_data_low)
    ELSE st

\* Spine Horizontal Offset block: the raw value is compared, not abs().
ScoreSpine(st, m, has_visibility_issue) ==
    LET spine_offset == Get(m, "spineHorizontalOffsetRatio") IN
    IF st.raised THEN st
    ELSE IF spine_offset # NoneV
    THEN IF spine_offset.kind # "num" THEN Raised(st)
         ELSE IF spine_offset.value > THRESHOLDS.spine_offset_ratio_significant
         THEN Deduct(st, PENALTIES.significant)
         ELSE IF spine_offset.value > THRESHOLDS.spine_offset_ratio_warning
         THEN Deduct(st, PENALTIES.warning)
         ELSE st
    ELSE IF ~has_visibility_issue THEN Deduct(st, PENALTIES.missing_data_low)
    ELSE st

\* Head Forward Ratio block: the raw value is compared, not abs().
ScoreHead(st, m, has_visibility_issue) ==
    LET head_forward == Get(m, "headForwardRatio") IN
    IF st.raised THEN st
    ELSE IF head_forward # NoneV
    THEN IF head_forward.kind # "num" THEN Raised(st)
         ELSE IF head_forward.value > THRESHOLDS.head_forward_ratio_significant
         THEN Deduct(st, PENALTIES.significant)
         ELSE IF head_forward.value > THRESHOLDS.head_forward_ratio_warning
         THEN Deduct(st, PENALTIES.warning)
         ELSE st
    ELSE IF ~has_visibility_issue THEN Deduct(st, PENALTIES.missing_data_low)
    ELSE st

\* Visibility Penalty: once, however many issue strings mention it.
ScoreVisibility(st, has_visibility_issue) ==
    IF st.raised THEN st
    ELSE IF has_visibility_issue THEN Deduct(st, PENALTIES.visibility_issue)
    ELSE st

\* final_score = max(0, min(100, round(score)))
FinalScore(n) == max(0, min(100, round(n)))

\* Variant: the penalties are added to the score and the result is not clamped.
calculate_overall_score_added(m, iss) ==
    IF InsufficientData(m, iss) THEN NoneV
    ELSE LET has_visibility_issue == AnyVisibility(iss)
             s1 == ScoreShoulder(Running(100), m, has_visibility_issue)
             s2 == ScoreTorso(s1, m, has_visibility_issue)
             s3 == ScoreSpine(s2, m, has_visibility_issue)
             s4 == ScoreHead(s3, m, has_visibility_issue)
             s5 == ScoreVisibility(s4, has_visibility_issue)
         IN IF s5.raised THEN TypeError ELSE Int_(100 + (100 - s5.score))

calculate_overall_score(m, iss) ==
    IF InsufficientData(m, iss) THEN NoneV
    ELSE LET has_visibility_issue == AnyVisibility(iss)
             s1 == ScoreShoulder(Running(100), m, has_visibility_issue)
             s2 == ScoreTorso(s1, m, has_visibility_issue)
             s3 == ScoreSpine(s2, m, has_visibility_issue)
             s4 == ScoreHead(s3, m, has_visibility_issue)
             s5 == ScoreVisibility(s4, has_visibility_issue)
         IN IF s5.raised THEN TypeError ELSE Int_(FinalScore(s5.score))

-----------------------------------------------------------------------------
(* Token texts *)

Dot == "."

Space == " "

\* str.replace(old, new) on tokens: occurrences of old, found left to right
\* and not overlapping, become new.
RECURSIVE replace(_, _, _)
replace(s, old, new) ==
    IF Len(s) < Len(old) THEN s
    ELSE IF SubSeq(s, 1, Len(old)) = old
    THEN new \o replace(SubSeq(s, Len(old) + 1, Len(s)), old, new)
    ELSE <<Head(s)>> \o replace(Tail(s), old, new)

\* str.strip(): leading and trailing whitespace goes.
RECURSIVE strip(_)
strip(s) ==
    IF s = <<>> THEN s
    ELSE IF Head(s) = Space THEN strip(Tail(s))
    ELSE IF s[Len(s)] = Space THEN strip(SubSeq(s, 1, Len(s) - 1))
    ELSE s

\* sep.join(parts)
RECURSIVE join(_, _)
join(sep, parts) ==
    IF parts = <<>> THEN <<>>
    ELSE IF Len(parts) = 1 THEN parts[1]
    ELSE parts[1] \o sep \o join(sep, Tail(parts))

\* list(dict.fromkeys(xs)): the first occurrence of each element, in order.
RECURSIVE fromkeys(_)
fromkeys(xs) ==
    IF xs = <<>> THEN <<>>
    ELSE LET init == fromkeys(SubSeq(xs, 1, Len(xs) - 1))
             last == xs[Len(xs)]
         IN IF \E i \in 1..Len(init) : init[i] = last THEN init
            ELSE Append(init, last)

-----------------------------------------------------------------------------
(* Texts of the handler *)

maintenance_tips ==
    <<"Take brief breaks every 30 mins to stretch/move.",
      "Ensure feet flat, knees ~90°, back supported.",
      "Keep elbows near 90° while typing, close to body.",
      "Monitor top roughly at eye level, arm's length away.",
      "Use lumbar support for spine's natural curve.">>

benefits ==
    "Good posture reduces pain (back, neck, shoulders), improves breathing & focus, and prevents long-term spinal issues."

ShouldersSignificant == <<"Shoulders significantly uneven", Dot>>

ShouldersSlight == <<"Shoulders slightly uneven", Dot>>

SpineSignificant == <<"Significant sideways lean", Dot>>

SpineSlight == <<"Slight sideways lean", Dot>>

TorsoSignificant == <<"Significant slouch or backward lean", Dot>>

TorsoSlight == <<"Slight slouch or backward lean", Dot>>

HeadSignificant == <<"Significant forward head posture", Dot>>

HeadSlight == <<"Slight forward head posture", Dot>>

MetricError == <<"Error during metric analysis", Dot>>

GoodAlignment == <<"Posture analysis indicates good alignment", Dot>>

VisibilityOnly ==
    <<"Could not analyze clearly due to visibility", Dot, Space, "Adjust position/lighting", Dot>>

WaitingOnly == <<"Waiting for clearer pose data", Dot>>

VisibilitySuffix == <<Space, "Visibility may affect accuracy", Dot>>

LooksGreat == <<"Posture looks great! Keep it up", Dot>>

-----------------------------------------------------------------------------
(* The Assessor: the inner try block of analyze_posture_endpoint *)

\* The locals assessment_parts and recommendations, and whether an
\* exception has left the try block.
Assessing == [parts |-> <<>>, recs |-> <<>>, raised |-> FALSE]

Phrase(st, part, recs) == [st EXCEPT !.parts = Append(@, part), !.recs = @ \o recs]

\* Shoulder Balance block.
AssessShoulder(st, m) ==
    LET shoulder_angle == Get(m, "shoulderAngle") IN
    IF st.raised \/ shoulder_angle = NoneV THEN st
    ELSE IF shoulder_angle.kind # "num" THEN Raised(st)
    ELSE LET abs_angle == abs(shoulder_angle.value) IN
         IF abs_angle > THRESHOLDS.shoulder_angle_significant
         THEN Phrase(st, ShouldersSignificant,
                     <<"Sit evenly, relax shoulders.", "Check armrest height/usage.">>)
         ELSE IF abs_angle > THRESHOLDS.shoulder_angle_warning
         THEN Phrase(st, ShouldersSlight, <<"Be mindful of keeping shoulders level.">>)
         ELSE st

\* Torso Lean (Sideways) block.
AssessSpine(st, m) ==
    LET spine_offset == Get(m, "spineHorizontalOffsetRatio") IN
    IF st.raised \/ spine_offset = NoneV THEN st
    ELSE IF spine_offset.kind # "num" THEN Raised(st)
    ELSE IF spine_offset.value > THRESHOLDS.spine_offset_ratio_significant
    THEN Phrase(st, SpineSignificant,
                <<"Engage core, sit centered.", "Avoid leaning heavily on one armrest.">>)
    ELSE IF spine_offset.value > THRESHOLDS.spine_offset_ratio_warning
    THEN Phrase(st, SpineSlight, <<"Check if leaning towards monitor or on armrest.">>)
    ELSE st

\* Variant: the torso angle is compared without abs().
AssessTorso_raw(st, m) ==
    LET torso_angle == Get(m, "torsoAngleFromVertical") IN
    IF st.raised \/ torso_angle = NoneV THEN st
    ELSE IF torso_angle.kind # "num" THEN Raised(st)
    ELSE IF torso_angle.value > THRESHOLDS.torso_angle_significant
    THEN Phrase(st, TorsoSignificant,
                <<"Sit tall, chest up.", "Use lumbar support actively.",
                  "Stretch chest/back during breaks.">>)
    ELSE IF torso_angle.value > THRESHOLDS.torso_angle_warning
    THEN Phrase(st, TorsoSlight,
                <<"Gently pull shoulder blades back/down. Imagine head pulled up.">>)
    ELSE st

\* Torso Slouch / Lean Fwd/Back block.
AssessTorso(st, m) ==
    LET torso_angle == Get(m, "torsoAngleFromVertical") IN
    IF st.raised \/ torso_angle = NoneV THEN st
    ELSE IF torso_angle.kind # "num" THEN Raised(st)
    ELSE LET abs_angle == abs(torso_angle.value) IN
         IF abs_angle > THRESHOLDS.torso_angle_significant
         THEN Phrase(st, TorsoSignificant,
                     <<"Sit tall, chest up.", "Use lumbar support actively.",
                       "Stretch chest/back during breaks.">>)
         ELSE IF abs_angle > THRESHOLDS.torso_angle_warning
         THEN Phrase(st, TorsoSlight,
                     <<"Gently pull shoulder blades back/down. Imagine head pulled up.">>)
         ELSE st

\* Forward Head block.
AssessHead(st, m) ==
    LET head_forward == Get(m, "headForwardRatio") IN
    IF st.raised \/ head_forward = NoneV THEN st
    ELSE IF head_forward.kind # "num" THEN Raised(st)
    ELSE IF head_forward.value > THRESHOLDS.head_forward_ratio_significant
    THEN Phrase(st, HeadSignificant,
                <<"Gently tuck chin (ears over shoulders).",
                  "Ensure monitor at eye level & arm's length.">>)
    ELSE IF head_forward.value > THRESHOLDS.head_forward_ratio_warning
    THEN Phrase(st, HeadSlight, <<"Perform chin tucks periodically. Check monitor distance.">>)
    ELSE st

\* except Exception as metric_error: the one handler of the whole try block.
ExceptMetricError(st) ==
    IF st.raised THEN [st EXCEPT !.parts = Append(@, MetricError), !.raised = FALSE]
    ELSE st

\* The try block: the four metric blocks in the order of the code, each one
\* skipped once an exception is on its way to the handler.
Assess(m) ==
    ExceptMetricError(
        AssessHead(AssessTorso(AssessSpine(AssessShoulder(Assessing, m), m), m), m))

-----------------------------------------------------------------------------
(* The Response Composer: the rest of analyze_posture_endpoint *)

\* any("visibility" in p.lower() or "unclear" in p.lower() for p in frontend_issues)
HasVisibilityIssue(iss) ==
    \E i \in 1..Len(iss) : In(visibility, lower(iss[i])) \/ In(unclear, lower(iss[i]))

\* any("waiting" in p.lower() for p in frontend_issues)
IsWaiting(iss) == \E i \in 1..Len(iss) : In(waiting, lower(iss[i]))

\* Variant: the first branch does not look at is_waiting.
CompileAssessment_nowaiting(parts, has_visibility_issue, is_waiting) ==
    LET final_assessment ==
            IF parts = <<>> /\ ~has_visibility_issue THEN GoodAlignment
            ELSE IF has_visibility_issue /\ parts = <<>> THEN VisibilityOnly
            ELSE IF is_waiting /\ parts = <<>> THEN WaitingOnly
            ELSE LET unique_parts == fromkeys(parts)
                     joined == join(<<Dot, Space>>, unique_parts) \o <<Dot>>
                 IN IF has_visibility_issue THEN joined \o VisibilitySuffix ELSE joined
    IN strip(replace(final_assessment, <<Dot, Dot>>, <<Dot>>))

\* The if / elif chain that compiles final_assessment, then
\* final_assessment.replace("..", ".").strip().
CompileAssessment(parts, has_visibility_issue, is_waiting) ==
    LET final_assessment ==
            IF parts = <<>> /\ ~has_visibility_issue /\ ~is_waiting THEN GoodAlignment
            ELSE IF has_visibility_issue /\ parts = <<>> THEN VisibilityOnly
            ELSE IF is_waiting /\ parts = <<>> THEN WaitingOnly
            ELSE LET unique_parts == fromkeys(parts)
                     joined == join(<<Dot, Space>>, unique_parts) \o <<Dot>>
                 IN IF has_visibility_issue THEN joined \o VisibilitySuffix ELSE joined
    IN strip(replace(final_assessment, <<Dot, Dot>>, <<Dot>>))

\* The condition of the "Posture looks great!" branch.
LooksGreatCase(final_score, has_specific_posture_issue, has_visibility_issue) ==
    /\ final_score # NoneV
    /\ final_score.value >= 85
    /\ ~has_specific_posture_issue
    /\ ~has_visibility_issue

\* show_extras after the if / elif that follows the assessment.
ShowExtras(final_score, has_specific_posture_issue, has_visibility_issue) ==
    IF LooksGreatCase(final_score, has_specific_posture_issue, has_visibility_issue) THEN TRUE
    ELSE IF has_specific_posture_issue THEN TRUE
    ELSE FALSE

\* [rec for rec in recommendations if rec], first occurrences only.
UniqueRecommendations(recs) == fromkeys(SelectSeq(recs, LAMBDA rec : rec # ""))

\* Variant: the override looks at visibility alone.
OnlyVisibilityOrWaiting_visibility(has_specific_posture_issue, has_visibility_issue, is_waiting) ==
    has_visibility_issue /\ ~has_specific_posture_issue

\* "Override if only visibility/waiting".
OnlyVisibilityOrWaiting(has_specific_posture_issue, has_visibility_issue, is_waiting) ==
    (has_visibility_issue \/ is_waiting) /\ ~has_specific_posture_issue

\* Variant: benefits is sent whatever show_extras says.
PostureFeedback_benefits(final_score, final_assessment, unique_recommendations, show_extras) ==
    [status |-> 200,
     score |-> final_score,
     assessment |-> final_assessment,
     recommendations |-> unique_recommendations,
     maintenance_tips |-> IF show_extras THEN maintenance_tips ELSE <<>>,
     benefits |-> [kind |-> "str", value |-> benefits]]

\* The PostureFeedback(...) the handler returns, as the 200 response.
PostureFeedback(final_score, final_assessment, unique_recommendations, show_extras) ==
    [status |-> 200,
     score |-> final_score,
     assessment |-> final_assessment,
     recommendations |-> unique_recommendations,
     maintenance_tips |-> IF show_extras THEN maintenance_tips ELSE <<>>,
     benefits |-> IF show_extras THEN [kind |-> "str", value |-> benefits]
                  ELSE [kind |-> "None", value |-> ""]]

\* The outer except: HTTPException(status_code=500), no PostureFeedback.
InternalServerError ==
    [status |-> 500, score |-> Unset, assessment |-> <<>>, recommendations |-> <<>>,
     maintenance_tips |-> <<>>, benefits |-> [kind |-> "None", value |-> ""]]

NoResponse ==
    [status |-> 0, score |-> Unset, assessment |-> <<>>, recommendations |-> <<>>,
     maintenance_tips |-> <<>>, benefits |-> [kind |-> "None", value |-> ""]]

\* Everything after the try block, given the Assessor's locals.
Compose(parts, recs, final_score, iss) ==
    LET has_specific_posture_issue == parts # <<>>
        has_visibility_issue == HasVisibilityIssue(iss)
        is_waiting == IsWaiting(iss)
        looks_great ==
            LooksGreatCase(final_score, has_specific_posture_issue, has_visibility_issue)
        final_assessment ==
            IF looks_great THEN LooksGreat
            ELSE CompileAssessment(parts, has_visibility_issue, is_waiting)
        only == OnlyVisibilityOrWaiting(has_specific_posture_issue, has_visibility_issue,
                                        is_waiting)
        show_extras ==
            IF only THEN FALSE
            ELSE ShowExtras(final_score, has_specific_posture_issue, has_visibility_issue)
        unique_recommendations == IF only THEN <<>> ELSE UniqueRecommendations(recs)
    IN PostureFeedback(final_score, final_assessment, unique_recommendations, show_extras)

\* The handler: the Assessor's exception is handled inside it, the Scorer is
\* called outside the inner try, so its exception reaches the outer except.
analyze_posture_endpoint(m, iss) ==
    LET a == Assess(m)
        final_score == calculate_overall_score(m, iss)
    IN IF final_score = TypeError THEN InternalServerError
       ELSE Compose(a.parts, a.recs, final_score, iss)

-----------------------------------------------------------------------------
(* Requests *)

\* Values around both thresholds of each metric, of both signs, with null,
\* a non-numeric value and the missing key.
NotNumbers == {NoneV, StrV, AbsentV}

ShoulderValues == {Num(n) : n \in {-11, -6, 5, 10}} \cup NotNumbers

TorsoValues == {Num(n) : n \in {-21, -16, 15, 20, 25}} \cup NotNumbers

SpineValues == {Num(n) : n \in {-25, 15, 20, 21}} \cup NotNumbers

HeadValues == {Num(n) : n \in {-20, 10, 15, 16}} \cup NotNumbers

Values(k) ==
    CASE k = "shoulderAngle" -> ShoulderValues
      [] k = "torsoAngleFromVertical" -> TorsoValues
      [] k = "spineHorizontalOffsetRatio" -> SpineValues
      [] k = "headForwardRatio" -> HeadValues

IssueStrings ==
    {<<"L","o","w"," ","V","i","s","i","b","i","l","i","t","y">>,
     <<"W","A","I","T","I","N","G",".",".">>,
     <<"U","n","c","l","e","a","r"," ","v","i","e","w">>,
     <<"g","l","a","r","e">>}

IssueLists == UNION {[1..n -> IssueStrings] : n \in 0..MaxIssues}

-----------------------------------------------------------------------------
(* The state machine *)

Init ==
    /\ \E a \in ShoulderValues, b \in TorsoValues, c \in SpineValues, d \in HeadValues :
           metrics = [k \in MetricKeys |->
                         CASE k = "shoulderAngle" -> a
                           [] k = "torsoAngleFromVertical" -> b
                           [] k = "spineHorizontalOffsetRatio" -> c
                           [] k = "headForwardRatio" -> d]
    /\ issues \in IssueLists
    /\ pc = "request"
    /\ score = Unset
    /\ assessment_parts = <<>>
    /\ response = NoResponse

\* A direct call of calculate_overall_score(metrics, issues).
CalculateOverallScore ==
    /\ pc = "request"
    /\ pc' = "scored"
    /\ score' = calculate_overall_score(metrics, issues)
    /\ UNCHANGED <<metrics, issues, assessment_parts, response>>

\* POST /analyze_posture with the request.
AnalyzePosture ==
    /\ pc = "request"
    /\ pc' = "responded"
    /\ assessment_parts' = Assess(metrics).parts
    /\ response' = analyze_posture_endpoint(metrics, issues)
    /\ UNCHANGED <<metrics, issues, score>>

Next == CalculateOverallScore \/ AnalyzePosture

Spec == Init /\ [][Next]_vars

-----------------------------------------------------------------------------
(* Vocabulary of the properties *)

\* The issue string s contains the word, case-insensitively.
Mentions(s, word) == In(word, lower(s))

SomeIssueMentions(word) == \E i \in 1..Len(issues) : Mentions(issues[i], word)

\* The metric is "absent": its key is missing or its value is null.
IsAbsent(k) == metrics[k] \in {AbsentV, NoneV}

\* The request's metrics are a MetricSet: each value a number, null or missing.
IsMetricSet == \A k \in MetricKeys : metrics[k].kind # "str"

\* The metric mapping has no key.
IsEmptyMapping == \A k \in MetricKeys : metrics[k] = AbsentV

\* Magnitude of a present metric: absolute value for the two angles, the
\* raw value for the two ratios.
Magnitude(k) ==
    IF k \in {"shoulderAngle", "torsoAngleFromVertical"}
    THEN (IF metrics[k].value < 0 THEN 0 - metrics[k].value ELSE metrics[k].value)
    ELSE metrics[k].value

SignificantThreshold(k) ==
    CASE k = "shoulderAngle" -> THRESHOLDS.shoulder_angle_significant
      [] k = "torsoAngleFromVertical" -> THRESHOLDS.torso_angle_significant
      [] k = "spineHorizontalOffsetRatio" -> THRESHOLDS.spine_offset_ratio_significant
      [] k = "headForwardRatio" -> THRESHOLDS.head_forward_ratio_significant

WarningThreshold(k) ==
    CASE k = "shoulderAngle" -> THRESHOLDS.shoulder_angle_warning
      [] k = "torsoAngleFromVertical" -> THRESHOLDS.torso_angle_warning
      [] k = "spineHorizontalOffsetRatio" -> THRESHOLDS.spine_offset_ratio_warning
      [] k = "headForwardRatio" -> THRESHOLDS.head_forward_ratio_warning

\* Severity of a metric as the contract words it.
Severity(k) ==
    IF IsAbsent(k) THEN "absent"
    ELSE IF Magnitude(k) > SignificantThreshold(k) THEN "significant"
    ELSE IF Magnitude(k) > WarningThreshold(k) THEN "warning"
    ELSE "none"

\* The penalty the contract gives one metric.
ExpectedPenalty(k) ==
    CASE Severity(k) = "significant" -> 22
      [] Severity(k) = "warning" -> 14
      [] Severity(k) = "none" -> 0
      [] Severity(k) = "absent" -> IF SomeIssueMentions(visibility) THEN 0 ELSE 5

ExpectedScore ==
    LET total == ExpectedPenalty("shoulderAngle") + ExpectedPenalty("torsoAngleFromVertical")
                 + ExpectedPenalty("spineHorizontalOffsetRatio")
                 + ExpectedPenalty("headForwardRatio")
                 + (IF SomeIssueMentions(visibility) THEN 6 ELSE 0)
        raw == 100 - total
    IN IF raw < 0 THEN 0 ELSE IF raw > 100 THEN 100 ELSE raw

Scored == pc = "scored"

\* The handler returned a PostureFeedback.
Responded == pc = "responded" /\ response.status = 200

InParts(phrase) == \E i \in 1..Len(assessment_parts) : assessment_parts[i] = phrase

SignificantPhrase(k) ==
    CASE k = "shoulderAngle" -> ShouldersSignificant
      [] k = "torsoAngleFromVertical" -> TorsoSignificant
      [] k = "spineHorizontalOffsetRatio" -> SpineSignificant
      [] k = "headForwardRatio" -> HeadSignificant

WarningPhrase(k) ==
    CASE k = "shoulderAngle" -> ShouldersSlight
      [] k = "torsoAngleFromVertical" -> TorsoSlight
      [] k = "spineHorizontalOffsetRatio" -> SpineSlight
      [] k = "headForwardRatio" -> HeadSlight

\* What the Scorer's block for metric k takes off the score of this request.
ScorerDeduction(k) ==
    LET v == AnyVisibility(issues)
        st == CASE k = "shoulderAngle" -> ScoreShoulder(Running(100), metrics, v)
                [] k = "torsoAngleFromVertical" -> ScoreTorso(Running(100), metrics, v)
                [] k = "spineHorizontalOffsetRatio" -> ScoreSpine(Running(100), metrics, v)
                [] k = "headForwardRatio" -> ScoreHead(Running(100), metrics, v)
    IN 100 - st.score

-----------------------------------------------------------------------------
(* Properties *)

\* C1: every non-null score calculate_overall_score returns, directly or
\* through the handler, is an integer from 0 to 100.
C1_ScoreInRange ==
    /\ (Scored /\ score.kind = "int") => (score.value \in 0..100)
    /\ (Responded /\ response.score.kind = "int") => (response.score.value \in 0..100)

\* C1 witness: the lowest score there is, all four metrics significant under
\* a visibility issue.
C1_Witness ==
    /\ Scored
    /\ \A k \in MetricKeys : Severity(k) = "significant"
    /\ SomeIssueMentions(visibility)
    /\ score = Int_(6)

\* C2: calculate_overall_score returns null exactly when the metric mapping
\* is empty and every issue string mentions "visibility" or "waiting" (none
\* at all included); every other MetricSet gets a non-null score.
C2_NullExactlyWhenNoSignal ==
    Scored =>
        LET noSignal ==
                /\ IsEmptyMapping
                /\ \A i \in 1..Len(issues) :
                       Mentions(issues[i], visibility) \/ Mentions(issues[i], waiting)
        IN /\ (score = NoneV) <=> noSignal
           /\ (IsMetricSet /\ ~noSignal) => score.kind = "int"

\* C2 witness: null for an empty mapping whose two issues are one of each
\* kind, in upper and mixed case.
C2_Witness ==
    /\ Scored
    /\ IsEmptyMapping
    /\ Len(issues) = 2
    /\ Mentions(issues[1], visibility) /\ ~Mentions(issues[1], waiting)
    /\ Mentions(issues[2], waiting) /\ ~Mentions(issues[2], visibility)
    /\ score = NoneV

\* C3 as claimed: all four metrics absent, by missing key or by null, and no
\* issue: the score is null.
C3_AllAbsentGivesNull ==
    (Scored /\ issues = <<>> /\ \A k \in MetricKeys : IsAbsent(k)) => score = NoneV

\* C3 amended: with no issue and all four metrics absent, the score is null
\* exactly when the mapping has no key; as soon as one key is there with a
\* null value the four missing-data penalties apply and the score is 80.
C3_AllAbsentNullOnlyIfEmpty ==
    (Scored /\ issues = <<>> /\ \A k \in MetricKeys : IsAbsent(k)) =>
        IF IsEmptyMapping THEN score = NoneV ELSE score = Int_(80)

\* C3 witness: the empty mapping with no issue has been scored null.
C3_Witness == Scored /\ issues = <<>> /\ IsEmptyMapping /\ score = NoneV

\* C4: a non-null score is clamp(100 - penalties, 0, 100): per metric 22,
\* 14 or 0 by severity, 5 if absent with no visibility issue, and 6 once for
\* any number of visibility issues.
C4_ScoreIsHundredMinusPenalties ==
    (Scored /\ score.kind = "int") => score.value = ExpectedScore

\* C4 witness: only torsoAngleFromVertical = 25, no issue, score 63.
C4_Witness ==
    /\ Scored
    /\ metrics["torsoAngleFromVertical"] = Num(25)
    /\ \A k \in MetricKeys \ {"torsoAngleFromVertical"} : metrics[k] = AbsentV
    /\ issues = <<>>
    /\ score = Int_(63)

\* C5: in every PostureFeedback, maintenance_tips is non-empty exactly when
\* benefits is non-null.
C5_ExtrasTogether ==
    Responded => ((response.maintenance_tips # <<>>) <=> (response.benefits.kind # "None"))

\* C5 witness: a response that carries both extras.
C5_Witness ==
    /\ Responded
    /\ response.maintenance_tips = maintenance_tips
    /\ response.benefits.value = benefits

\* C6: a response to issues that mention visibility, unclear or waiting,
\* with no phrase from the Assessor, has no recommendation, no tip and
\* no benefits, whatever its score.
C6_NoTipsWhenOnlyVisibilityOrWaiting ==
    ( /\ Responded
      /\ assessment_parts = <<>>
      /\ SomeIssueMentions(visibility) \/ SomeIssueMentions(unclear)
            \/ SomeIssueMentions(waiting) ) =>
        /\ response.recommendations = <<>>
        /\ response.maintenance_tips = <<>>
        /\ response.benefits.kind = "None"

\* C6 witness: a waiting-only request with the full score and no extras.
C6_Witness ==
    /\ Responded
    /\ assessment_parts = <<>>
    /\ SomeIssueMentions(waiting)
    /\ ~SomeIssueMentions(visibility) /\ ~SomeIssueMentions(unclear)
    /\ response.score = Int_(100)
    /\ response.maintenance_tips = <<>>

\* The waiting-only case of C7.
WaitingOnlyCase ==
    /\ Responded
    /\ assessment_parts = <<>>
    /\ SomeIssueMentions(waiting)
    /\ ~SomeIssueMentions(visibility) /\ ~SomeIssueMentions(unclear)

\* C7 as claimed: no phrase, an issue mentions waiting, none mentions
\* visibility or unclear: the assessment is "Waiting for clearer pose data."
C7_WaitingAssessment == WaitingOnlyCase => response.assessment = WaitingOnly

\* C7 amended: in that case the assessment is "Waiting for clearer pose
\* data." when the score is null or below 85, and "Posture looks great! Keep
\* it up." when the score is 85 or more.
C7_WaitingAssessmentBelow85 ==
    WaitingOnlyCase =>
        IF response.score.kind = "int" /\ response.score.value >= 85
        THEN response.assessment = LooksGreat
        ELSE response.assessment = WaitingOnly

\* C7 witness: a waiting-only response below 85 that says "Waiting ...".
C7_Witness ==
    /\ WaitingOnlyCase
    /\ response.score.kind = "int" /\ response.score.value < 85
    /\ response.assessment = WaitingOnly

\* C8: when a metric's value is not a number, the handler still answers with
\* a PostureFeedback, the phrase "Error during metric analysis." is among
\* the phrases, and every other metric over a threshold has its phrase.
C8_MetricFaultContained ==
    (pc = "responded" /\ \E k \in MetricKeys : metrics[k] = StrV) =>
        /\ response.status = 200
        /\ InParts(MetricError)
        /\ \A k \in MetricKeys :
               (metrics[k].kind = "num" /\ Severity(k) = "significant")
                   => InParts(SignificantPhrase(k))
        /\ \A k \in MetricKeys :
               (metrics[k].kind = "num" /\ Severity(k) = "warning")
                   => InParts(WarningPhrase(k))

\* C9: replacing shoulderAngle by a value of larger absolute value, all else
\* equal, never gives a higher score.
C9_ShoulderMonotone ==
    (Scored /\ score.kind = "int" /\ metrics["shoulderAngle"].kind = "num") =>
        \A v \in ShoulderValues :
            (v.kind = "num" /\ abs(v.value) > abs(metrics["shoulderAngle"].value)) =>
                LET other == calculate_overall_score(
                                 [metrics EXCEPT !["shoulderAngle"] = v], issues)
                IN other.kind = "int" /\ other.value <= score.value

\* C9 witness: a scored request whose shoulder angle is inside the warning
\* threshold, and which a larger angle scores strictly lower.
C9_Witness ==
    /\ Scored
    /\ score.kind = "int"
    /\ metrics["shoulderAngle"] = Num(5)
    /\ calculate_overall_score([metrics EXCEPT !["shoulderAngle"] = Num(-11)], issues)
           = Int_(score.value - 22)

\* C10: for each metric of a request with a non-null score, the Scorer takes
\* 22 exactly when the Assessor gave the significant phrase, 14 exactly when
\* it gave the warning phrase, and nothing for a present metric exactly when
\* it gave neither; and a response with a phrase has a score of at most 86.
C10_ScorerAndAssessorAgree ==
    (Responded /\ response.score.kind = "int") =>
        /\ \A k \in MetricKeys :
               /\ (ScorerDeduction(k) = 22) <=> InParts(SignificantPhrase(k))
               /\ (ScorerDeduction(k) = 14) <=> InParts(WarningPhrase(k))
               /\ ~IsAbsent(k) =>
                      ((ScorerDeduction(k) = 0)
                          <=> (~InParts(SignificantPhrase(k)) /\ ~InParts(WarningPhrase(k))))
        /\ (assessment_parts # <<>>) => response.score.value <= 86

\* C10 witness: one warning phrase, a negative angle, and the score 86.
C10_Witness ==
    /\ Responded
    /\ metrics["torsoAngleFromVertical"] = Num(-16)
    /\ assessment_parts = <<TorsoSlight>>
    /\ response.score = Int_(86)

====
